---- MODULE Spec2Model ----
(***************************************************************************)
(* Model of main.py: the metric fetchers, the persisted history cache,     *)
(* the 4h/24h lookups and deltas, the signal evaluation and build_report.  *)
(*                                                                         *)
(* Numbers.  Python floats are modelled as fixed-point integers with one   *)
(* binary fractional digit: the integer n stands for n/2, so 1.5 is 3,     *)
(* 3 is 6, 75 is 150 and 1.0 is 2.  Timestamps are epoch seconds and are   *)
(* not scaled.  An Optional[float] is a record: None or Some(n).           *)
(***************************************************************************)
EXTENDS Integers, Sequences, FiniteSets, TLC

VARIABLES
    clock,      \* time.time() of the host, epoch seconds
    file,       \* content of REPORT_CACHE_PATH
    pc,         \* per callback: position inside build_report
    now_ts,     \* per callback: build_report's now_ts
    vals,       \* per callback: the nine fetched metrics (snapshot_vals)
    cache,      \* per callback: build_report's local cache
    store_log,  \* what the last load/prune/append/save sequence did
    result,     \* what the last build_report call computed and how it ended
    cycles,     \* number of build_report calls started
    ev,         \* signal evaluation: metric vector in, signals and level out
    tr,         \* trend rendering: delta and labels in, band and label out
    ft,         \* a fetcher call: source responses in, value or exception out
    fv          \* _find_value_at: history, key, target in, value out

vars == <<clock, file, pc, now_ts, vals, cache, store_log, result,
          cycles, ev, tr, ft, fv>>

pure_vars == <<ev, tr, ft, fv>>

-----------------------------------------------------------------------------
(* Optional[float] *)

None == [some |-> FALSE, v |-> 0]

Some(x) == [some |-> TRUE, v |-> x]

Keys == {"btc_dom", "total_mc", "altcap", "ethbtc_7d", "defi_7d",
         "funding_avg", "netflow_m", "alt_btc_ratio", "season_idx"}

-----------------------------------------------------------------------------
(* Configuration *)

CACHE_KEEP_HOURS == 72

HOUR == 3600

-----------------------------------------------------------------------------
(* Bounds of the model *)

MaxCycles == 3

\* epoch second at which the model starts observing the host clock
StartTime == 1000000

\* the instants at which the host clock is observed, relative to StartTime
Offsets == {0, 4 * HOUR, 24 * HOUR, 72 * HOUR, 76 * HOUR}

Instants == {StartTime + o : o \in Offsets}

\* the provider states a cycle may meet: which of the eight try-guarded
\* fetchers get a valid payload, and the number (fixed point) they all quote
Markets == {<<Keys \ {"alt_btc_ratio"}, 4>>,
            <<Keys \ {"alt_btc_ratio", "netflow_m"}, 160>>,
            <<{}, 0>>}

Tasks == {"check", "send_daily"}

-----------------------------------------------------------------------------
(* The persisted cache: REPORT_CACHE_PATH and the dict json.load returns    *)
(*                                                                         *)
(* A JSON document is [k, hk, history]: k says whether it is an object      *)
(* ("dict") or any other JSON value ("other": array, number, string,        *)
(* null); hk says whether the object's "history" is a list of {t, vals}     *)
(* entries ("list"), is missing ("missing"), or is anything on which        *)
(* h.get("t", 0) >= keep_from raises ("bad": not iterable, an element that   *)
(* is no object, a non-numeric "t").                                        *)
(* The file is [k, doc]: "absent", "invalid" (unreadable, or not valid      *)
(* JSON, as a truncated or partly written file is) or "json".               *)

Doc(k, hk, history) == [k |-> k, hk |-> hk, history |-> history]

EmptyCache == Doc("dict", "list", <<>>)

FileOf(k, doc) == [k |-> k, doc |-> doc]

AbsentFile == FileOf("absent", EmptyCache)

InvalidFile == FileOf("invalid", EmptyCache)

\* the files a process may find when it starts
InitFiles == {AbsentFile, InvalidFile,
              FileOf("json", EmptyCache),
              FileOf("json", Doc("other", "missing", <<>>)),
              FileOf("json", Doc("dict", "missing", <<>>)),
              FileOf("json", Doc("dict", "bad", <<>>))}

_load_cache(f) ==
    IF f.k = "json" THEN f.doc ELSE EmptyCache

\* the outcomes of open(..., "w") followed by json.dump
SaveOutcomes == {"ok", "open_failed", "write_failed"}

\* open(path, "w") truncates the file before json.dump writes into it; every
\* exception is swallowed.  io is what the file system lets happen.
_save_cache(c, f, io) ==
    CASE io = "ok" -> FileOf("json", c)
      [] io = "open_failed" -> f
      [] OTHER -> InvalidFile

keep_from(now) == now - CACHE_KEEP_HOURS * HOUR

\* a prune that also drops the snapshot taken exactly at the horizon
Kept_strict(history, now) ==
    SelectSeq(history, LAMBDA h : h.t > keep_from(now))

Kept(history, now) ==
    SelectSeq(history, LAMBDA h : h.t >= keep_from(now))

\* [raised, cache]: cache.get raises AttributeError on a non-dict, the
\* comprehension raises TypeError / AttributeError on a bad history
_prune_cache(c, now) ==
    IF c.k # "dict" \/ c.hk = "bad"
    THEN [raised |-> TRUE, cache |-> c]
    ELSE [raised |-> FALSE,
          cache |-> Doc("dict", "list",
                        Kept(IF c.hk = "missing" THEN <<>> ELSE c.history, now))]

Snapshot(t, v) == [t |-> t, vals |-> v]

\* cache["history"].append({"t": now_ts, "vals": snapshot_vals})
AppendSnapshot(c, t, v) ==
    Doc(c.k, c.hk, Append(c.history, Snapshot(t, v)))

-----------------------------------------------------------------------------
(* Historical lookup and deltas *)

\* a lookup that forgets the target and takes any snapshot holding the key
Candidates_any(history, key, target_ts) ==
    SelectSeq(history, LAMBDA h : /\ key \in DOMAIN h.vals
                                  /\ h.vals[key].some)

Candidates(history, key, target_ts) ==
    SelectSeq(history, LAMBDA h : /\ h.t <= target_ts
                                  /\ key \in DOMAIN h.vals
                                  /\ h.vals[key].some)

\* Python's max(seq, key=...) returns the first element with the greatest key
FirstMax(seq) ==
    LET i == CHOOSE n \in 1..Len(seq) :
                 /\ \A j \in 1..Len(seq) : seq[j].t <= seq[n].t
                 /\ \A j \in 1..(n - 1) : seq[j].t < seq[n].t
    IN seq[i]

_find_value_at(history, key, target_ts) ==
    LET candidates == Candidates(history, key, target_ts)
    IN IF candidates = <<>> THEN None
       ELSE FirstMax(candidates).vals[key]

\* percent change as the exact fraction v / den
_pct_change(cur, prev) ==
    IF ~cur.some \/ ~prev.some THEN [some |-> FALSE, v |-> 0, den |-> 1]
    ELSE IF prev.v = 0 THEN [some |-> FALSE, v |-> 0, den |-> 1]
    ELSE [some |-> TRUE, v |-> (cur.v - prev.v) * 100, den |-> prev.v]

_abs_change(cur, prev) ==
    IF ~cur.some \/ ~prev.some THEN None
    ELSE Some(cur.v - prev.v)

-----------------------------------------------------------------------------
(* Signals and alert level (build_report, step 5) *)

\* thresholds, in the fixed-point unit: 3, 0, 0, 1.5 and 75
TH_ETHBTC == 6

TH_FUNDING == 0

TH_NETFLOW == 0

TH_RATIO == 3

TH_INDEX == 150

\* Python truthiness of an Optional[float]: None and 0 are falsy
Truthy(x) == x.some /\ x.v # 0

\* a comparison that lets the threshold itself activate the signal
Signal_ge(x, th) == x.some /\ x.v >= th

\* bool(x and x > th)
Signal(x, th) == Truthy(x) /\ x.v > th

s_ethbtc(v) == Signal(v["ethbtc_7d"], TH_ETHBTC)

s_funding(v) == Signal(v["funding_avg"], TH_FUNDING)

s_netflow(v) == Signal(v["netflow_m"], TH_NETFLOW)

s_ratio(v) == Signal(v["alt_btc_ratio"], TH_RATIO)

s_index(v) == Signal(v["season_idx"], TH_INDEX)

B2N(b) == IF b THEN 1 ELSE 0

\* sum([bool(x) for x in [s_ethbtc, s_funding, s_netflow, s_ratio, s_index]])
count_active(v) ==
    B2N(s_ethbtc(v)) + B2N(s_funding(v)) + B2N(s_netflow(v))
        + B2N(s_ratio(v)) + B2N(s_index(v))

\* a classification that forgets the season-index condition
level_count_only(v) ==
    IF count_active(v) >= 4 THEN "Altseason Confirmed"
    ELSE IF 2 <= count_active(v) /\ count_active(v) <= 3 THEN "Early Signal"
    ELSE "None"

level(v) ==
    IF count_active(v) >= 4 /\ s_index(v) THEN "Altseason Confirmed"
    ELSE IF count_active(v) >= 4 THEN "Strong Signal"
    ELSE IF 2 <= count_active(v) /\ count_active(v) <= 3 THEN "Early Signal"
    ELSE "None"

Evaluate(v) ==
    [s_ethbtc |-> s_ethbtc(v), s_funding |-> s_funding(v),
     s_netflow |-> s_netflow(v), s_ratio |-> s_ratio(v),
     s_index |-> s_index(v), count_active |-> count_active(v),
     level |-> level(v)]

-----------------------------------------------------------------------------
(* Trend text for point differences *)

\* 1.0 in the fixed-point unit
PP_STRONG == 2

\* what the returned string says: which of the caller's two labels it
\* carries ("pos_text", "neg_text", or "none"), whether the intensifier is
\* appended, and whether it is the "N/A" or the sideways text
Trend(label, strong, kind) == [label |-> label, strong |-> strong, kind |-> kind]

_brief_trend_pp(pp) ==
    IF ~pp.some THEN Trend("none", FALSE, "N/A")
    ELSE IF pp.v <= -PP_STRONG THEN Trend("pos_text", TRUE, "trend")
    ELSE IF pp.v < 0 THEN Trend("pos_text", FALSE, "trend")
    ELSE IF pp.v >= PP_STRONG THEN Trend("neg_text", TRUE, "trend")
    ELSE IF pp.v > 0 THEN Trend("neg_text", FALSE, "trend")
    ELSE Trend("none", FALSE, "sideways")

-----------------------------------------------------------------------------
(* Metric fetchers                                                          *)
(*                                                                         *)
(* A response is what one _safe_get_json / _safe_get_text call gave and     *)
(* what the fetcher finds in it:                                            *)
(*   "fail"   the call returned None (transport error, HTTP error status,   *)
(*            body that is not JSON);                                       *)
(*   "shape"  a non-empty payload of another shape than the fetcher reads   *)
(*            (another JSON type, a missing key, a non-numeric field);      *)
(*   "empty"  a payload of the expected shape that holds no value (an empty *)
(*            list, a series too short, no match of the pattern);           *)
(*   "valid"  a payload of the expected shape holding the numbers v and w.  *)
(* A call returns [raised, value]: an exception, or an Optional[float].     *)

Response(k, v, w) == [k |-> k, v |-> v, w |-> w]

Failed == Response("fail", 0, 0)

Return(x) == [raised |-> FALSE, value |-> x]

Raise == [raised |-> TRUE, value |-> None]

Max(a, b) == IF a >= b THEN a ELSE b

\* try: float(data["data"]["market_cap_percentage"]["btc"]) except: None
get_btc_dominance(att) ==
    IF att[1].k = "valid" THEN Return(Some(att[1].v)) ELSE Return(None)

get_total_market_cap_usd(att) ==
    IF att[1].k = "valid" THEN Return(Some(att[1].v)) ELSE Return(None)

\* v is the total market cap, w the BTC percentage; the quotient is exact on
\* the payloads enumerated below
get_altcoin_market_cap_est(att) ==
    IF att[1].k = "valid"
    THEN Return(Some(Max(att[1].v - (att[1].v * att[1].w) \div 200, 0)))
    ELSE Return(None)

get_eth_btc_change_7d_pct(att) ==
    IF att[1].k = "valid" THEN Return(Some(att[1].v)) ELSE Return(None)

\* att[1] is the historicalChainTvl API, att[2] the CSV found on the page
get_defi_tvl_change_7d_pct(att) ==
    IF att[1].k = "valid" THEN Return(Some(att[1].v))
    ELSE IF att[2].k = "valid" THEN Return(Some(att[2].v))
    ELSE Return(None)

get_funding_rate_avg(att) ==
    IF att[1].k = "valid" THEN Return(Some(att[1].v)) ELSE Return(None)

\* att[1] is the netflow API, att[2] the scraped page
get_stablecoin_netflow_cex_usd(att) ==
    IF att[1].k = "valid" THEN Return(Some(att[1].v))
    ELSE IF att[2].k = "valid" THEN Return(Some(att[2].v))
    ELSE Return(None)

\* att[p] is page p of coins/markets: v is the volume of the coins whose id is
\* "bitcoin", w the volume of the others.  No try guards the loop: iterating a
\* payload of another shape raises (coin.get on a str, float() of a
\* non-numeric total_volume).  A falsy payload ends the loop.
RECURSIVE SumPages(_, _, _, _)
SumPages(att, p, btc_vol, alt_vol) ==
    IF p > 3 THEN [raised |-> FALSE, btc_vol |-> btc_vol, alt_vol |-> alt_vol]
    ELSE IF att[p].k \in {"fail", "empty"}
    THEN [raised |-> FALSE, btc_vol |-> btc_vol, alt_vol |-> alt_vol]
    ELSE IF att[p].k = "shape"
    THEN [raised |-> TRUE, btc_vol |-> btc_vol, alt_vol |-> alt_vol]
    ELSE SumPages(att, p + 1, btc_vol + att[p].v, alt_vol + att[p].w)

\* alt_vol / btc_vol in the fixed-point unit; the quotient is exact on the
\* payloads enumerated below
get_alt_btc_spot_volume_ratio(att) ==
    LET s == SumPages(att, 1, 0, 0)
    IN IF s.raised THEN Raise
       ELSE IF s.btc_vol > 0 THEN Return(Some((2 * s.alt_vol) \div s.btc_vol))
       ELSE Return(None)

\* int(round(float(x))) on the fixed-point number n (n/2): Python rounds a
\* half to the even neighbour
RoundInt(n) ==
    IF n % 2 = 0 THEN n
    ELSE IF ((n - 1) \div 2) % 2 = 0 THEN n - 1 ELSE n + 1

\* att[1], att[2] are the two APIs (no range check), att[3] the scraped page,
\* whose number is kept only when 0 <= val <= 100
get_altcoin_season_index(att) ==
    IF att[1].k = "valid" THEN Return(Some(RoundInt(att[1].v)))
    ELSE IF att[2].k = "valid" THEN Return(Some(RoundInt(att[2].v)))
    ELSE IF att[3].k = "valid" /\ 0 <= att[3].v /\ att[3].v <= 200
    THEN Return(Some(att[3].v))
    ELSE Return(None)

Fetch(key, att) ==
    CASE key = "btc_dom" -> get_btc_dominance(att)
      [] key = "total_mc" -> get_total_market_cap_usd(att)
      [] key = "altcap" -> get_altcoin_market_cap_est(att)
      [] key = "ethbtc_7d" -> get_eth_btc_change_7d_pct(att)
      [] key = "defi_7d" -> get_defi_tvl_change_7d_pct(att)
      [] key = "funding_avg" -> get_funding_rate_avg(att)
      [] key = "netflow_m" -> get_stablecoin_netflow_cex_usd(att)
      [] key = "alt_btc_ratio" -> get_alt_btc_spot_volume_ratio(att)
      [] OTHER -> get_altcoin_season_index(att)

-----------------------------------------------------------------------------
(* build_report, as run by the /check handler and by the daily job          *)

AllNone == [k \in Keys |-> None]

\* the providers as one cycle finds them: the fetchers in a answer their first
\* attempt with the quote q, the others fail every attempt; pages are the
\* three coins/markets pages
World(a, q, pages) ==
    [k \in Keys |->
        IF k = "alt_btc_ratio" THEN pages
        ELSE IF k \in a THEN <<Response("valid", q, 0), Failed, Failed>>
        ELSE <<Failed, Failed, Failed>>]

CyclePages == {<<Response("valid", 2, 4), Failed, Failed>>,
               <<Response("shape", 0, 0), Failed, Failed>>}

Worlds == {World(m[1], m[2], pages) : m \in Markets, pages \in CyclePages}

PctKeys == {"total_mc", "altcap", "alt_btc_ratio"}

NoDelta == [some |-> FALSE, v |-> 0, den |-> 1]

\* the delta build_report computes for a key (step 4)
Delta(key, cur, prev) ==
    IF key \in PctKeys THEN _pct_change(cur, prev)
    ELSE LET d == _abs_change(cur, prev)
         IN [some |-> d.some, v |-> d.v, den |-> 1]

\* prev_values(key)[0] and [1]
\* a lookup at the time of the cycle itself
Prev4h_now(history, key, now) == _find_value_at(history, key, now)

Prev4h(history, key, now) == _find_value_at(history, key, now - 4 * HOUR)

Prev24h(history, key, now) == _find_value_at(history, key, now - 24 * HOUR)

\* lines 524-529: net_d4 is None or a float, never the str 'N/A', so
\* net_d4 != 'N/A' is true and net_d4[0] raises TypeError as soon as the
\* netflow block is entered
NetflowBlockRaises(v) == v["netflow_m"].some

NoLog == [now |-> 0, loaded |-> EmptyCache,
          pruned |-> <<>>, appended |-> <<>>, before |-> AbsentFile,
          saved |-> "none"]

NoResult == [outcome |-> "none", at |-> "none", by |-> "none", now |-> 0,
             vals |-> AllNone, history |-> <<>>,
             prev4 |-> AllNone, prev24 |-> AllNone,
             d4 |-> [k \in Keys |-> NoDelta], d24 |-> [k \in Keys |-> NoDelta],
             eval |-> Evaluate(AllNone)]

\* handlers that start build_report while another call is still running
LoopIdle_always == TRUE

\* the event loop runs one callback at a time, and build_report never awaits
LoopIdle == \A t \in Tasks : pc[t] = "idle"

Finish(p) ==
    /\ pc' = [pc EXCEPT ![p] = "idle"]
    /\ now_ts' = [now_ts EXCEPT ![p] = 0]
    /\ vals' = [vals EXCEPT ![p] = AllNone]
    /\ cache' = [cache EXCEPT ![p] = EmptyCache]

\* lines 326-339: the clock is read, then the nine fetchers run
BeginFetch(p) ==
    /\ LoopIdle
    /\ cycles < MaxCycles
    /\ \E w \in Worlds :
         LET got == [k \in Keys |-> Fetch(k, w[k])]
         IN /\ \A k \in Keys : ~got[k].raised
            /\ vals' = [vals EXCEPT ![p] = [k \in Keys |-> got[k].value]]
    /\ now_ts' = [now_ts EXCEPT ![p] = clock]
    /\ pc' = [pc EXCEPT ![p] = "load"]
    /\ cycles' = cycles + 1
    /\ UNCHANGED <<clock, file, cache, store_log, result, pure_vars>>

\* a fetcher raises: build_report ends before it touches the cache
FetchRaises(p) ==
    /\ LoopIdle
    /\ cycles < MaxCycles
    /\ \E w \in Worlds : \E k \in Keys : Fetch(k, w[k]).raised
    /\ result' = [NoResult EXCEPT !.outcome = "raised", !.at = "fetch",
                                  !.by = p, !.now = clock]
    /\ cycles' = cycles + 1
    /\ UNCHANGED <<clock, file, pc, now_ts, vals, cache, store_log, pure_vars>>

\* lines 342-355
LoadPruneAppend(p) ==
    /\ pc[p] = "load"
    /\ LET loaded == _load_cache(file)
           pr == _prune_cache(loaded, now_ts[p])
           c == AppendSnapshot(pr.cache, now_ts[p], vals[p])
       IN /\ ~pr.raised
          /\ cache' = [cache EXCEPT ![p] = c]
          /\ store_log' = [now |-> now_ts[p], loaded |-> loaded,
                           pruned |-> pr.cache.history,
                           appended |-> c.history, before |-> file,
                           saved |-> "none"]
    /\ pc' = [pc EXCEPT ![p] = "save"]
    /\ UNCHANGED <<clock, file, now_ts, vals, result, cycles, pure_vars>>

\* line 343 raises: build_report ends without a report
PruneRaises(p) ==
    /\ pc[p] = "load"
    /\ LET loaded == _load_cache(file)
       IN /\ _prune_cache(loaded, now_ts[p]).raised
          /\ store_log' = [NoLog EXCEPT !.now = now_ts[p],
                                        !.loaded = loaded, !.before = file]
    /\ result' = [NoResult EXCEPT !.outcome = "raised", !.at = "prune",
                                  !.by = p, !.now = now_ts[p],
                                  !.vals = vals[p]]
    /\ Finish(p)
    /\ UNCHANGED <<clock, file, cycles, pure_vars>>

\* line 356
Save(p) ==
    /\ pc[p] = "save"
    /\ \E io \in SaveOutcomes :
         /\ file' = _save_cache(cache[p], file, io)
         /\ store_log' = [store_log EXCEPT !.saved = io]
    /\ pc' = [pc EXCEPT ![p] = "render"]
    /\ UNCHANGED <<clock, now_ts, vals, cache, result, cycles, pure_vars>>

\* the locals of lines 359-425
Computed(p) ==
    LET h == cache[p].history
        v == vals[p]
        n == now_ts[p]
        p4 == [k \in Keys |-> Prev4h(h, k, n)]
        p24 == [k \in Keys |-> Prev24h(h, k, n)]
    IN [outcome |-> "none", at |-> "none", by |-> p, now |-> n,
        vals |-> v, history |-> h, prev4 |-> p4, prev24 |-> p24,
        d4 |-> [k \in Keys |-> Delta(k, v[k], p4[k])],
        d24 |-> [k \in Keys |-> Delta(k, v[k], p24[k])],
        eval |-> Evaluate(v)]

\* lines 359-597 run to the return
ReturnReport(p) ==
    /\ pc[p] = "render"
    /\ ~NetflowBlockRaises(vals[p])
    /\ result' = [Computed(p) EXCEPT !.outcome = "report", !.at = "return"]
    /\ Finish(p)
    /\ UNCHANGED <<clock, file, store_log, cycles, pure_vars>>

\* lines 359-528: the netflow block raises
RenderRaises(p) ==
    /\ pc[p] = "render"
    /\ NetflowBlockRaises(vals[p])
    /\ result' = [Computed(p) EXCEPT !.outcome = "raised", !.at = "render"]
    /\ Finish(p)
    /\ UNCHANGED <<clock, file, store_log, cycles, pure_vars>>

\* the host clock moves on; build_report reads it once, at line 328, so only
\* the time that passes between two calls is modelled
Tick ==
    /\ LoopIdle
    /\ \E c \in Instants : c > clock /\ clock' = c
    /\ UNCHANGED <<file, pc, now_ts, vals, cache, store_log, result, cycles,
                   pure_vars>>

-----------------------------------------------------------------------------
(* Inputs of the pure functions *)

NoEv == [in |-> AllNone, out |-> Evaluate(AllNone), done |-> FALSE]

NoTr == [cur |-> None, hist |-> None, delta |-> None,
         out |-> Trend("none", FALSE, "N/A"), done |-> FALSE]

NoFt == [key |-> "btc_dom", att |-> <<Failed, Failed, Failed>>,
         out |-> Return(None), done |-> FALSE]

NoFv == [history |-> <<>>, key |-> "btc_dom", target |-> 0, out |-> None,
         done |-> FALSE]

PureIdle == ev = NoEv /\ tr = NoTr /\ ft = NoFt /\ fv = NoFv

CycleIdle ==
    /\ clock = StartTime
    /\ file = AbsentFile
    /\ pc = [t \in Tasks |-> "idle"]
    /\ now_ts = [t \in Tasks |-> 0]
    /\ vals = [t \in Tasks |-> AllNone]
    /\ cache = [t \in Tasks |-> EmptyCache]
    /\ store_log = NoLog
    /\ result = NoResult
    /\ cycles = 0

-----------------------------------------------------------------------------
(* The bot: a process start followed by evaluation cycles *)

Init ==
    /\ clock = StartTime
    /\ file \in InitFiles
    /\ pc = [t \in Tasks |-> "idle"]
    /\ now_ts = [t \in Tasks |-> 0]
    /\ vals = [t \in Tasks |-> AllNone]
    /\ cache = [t \in Tasks |-> EmptyCache]
    /\ store_log = NoLog
    /\ result = NoResult
    /\ cycles = 0
    /\ PureIdle

Next ==
    \/ Tick
    \/ \E p \in Tasks : BeginFetch(p)
    \/ \E p \in Tasks : FetchRaises(p)
    \/ \E p \in Tasks : LoadPruneAppend(p)
    \/ \E p \in Tasks : PruneRaises(p)
    \/ \E p \in Tasks : Save(p)
    \/ \E p \in Tasks : ReturnReport(p)
    \/ \E p \in Tasks : RenderRaises(p)

Spec == Init /\ [][Next]_vars

-----------------------------------------------------------------------------
(* Signal evaluation on its own: every vector around the five thresholds *)

EvalMargin == 1

Around(th) ==
    {None, Some(0)} \cup {Some(x) : x \in (th - EvalMargin)..(th + EvalMargin)}

EvalVectors ==
    {[k \in Keys |->
        CASE k = "ethbtc_7d" -> a
          [] k = "funding_avg" -> b
          [] k = "netflow_m" -> c
          [] k = "alt_btc_ratio" -> d
          [] k = "season_idx" -> e
          [] OTHER -> None] :
     a \in Around(TH_ETHBTC), b \in Around(TH_FUNDING),
     c \in Around(TH_NETFLOW), d \in Around(TH_RATIO), e \in Around(TH_INDEX)}

InitEval ==
    /\ CycleIdle
    /\ \E v \in EvalVectors : ev = [NoEv EXCEPT !.in = v]
    /\ tr = NoTr /\ ft = NoFt /\ fv = NoFv

DoEvaluate ==
    /\ ~ev.done
    /\ ev' = [ev EXCEPT !.out = Evaluate(ev.in), !.done = TRUE]
    /\ UNCHANGED <<clock, file, pc, now_ts, vals, cache, store_log, result,
                   cycles, tr, ft, fv>>

NextEval == DoEvaluate

SpecEval == InitEval /\ [][NextEval]_vars

-----------------------------------------------------------------------------
(* Point-difference trend on its own: deltas of two values near 52.0 *)

TrendMid == 104

TrendSpan == 4

TrendValues == {Some(x) : x \in (TrendMid - TrendSpan)..(TrendMid + TrendSpan)}

InitTrend ==
    /\ CycleIdle
    /\ \E c \in TrendValues \cup {None}, h \in TrendValues \cup {None} :
         tr = [NoTr EXCEPT !.cur = c, !.hist = h]
    /\ ev = NoEv /\ ft = NoFt /\ fv = NoFv

\* _brief_trend_pp(_abs_change(current, historical), pos_text, neg_text)
DoTrend ==
    /\ ~tr.done
    /\ LET d == _abs_change(tr.cur, tr.hist)
       IN tr' = [tr EXCEPT !.delta = d, !.out = _brief_trend_pp(d),
                           !.done = TRUE]
    /\ UNCHANGED <<clock, file, pc, now_ts, vals, cache, store_log, result,
                   cycles, ev, ft, fv>>

NextTrend == DoTrend

SpecTrend == InitTrend /\ [][NextTrend]_vars

-----------------------------------------------------------------------------
(* The fetchers on their own: every combination of source responses *)

Outcomes(values) ==
    {Failed, Response("shape", 0, 0), Response("empty", 0, 0)}
        \cup {Response("valid", x[1], x[2]) : x \in values}

\* numbers an API may quote: 0, 1.5, 75.5 and 150
ApiValues == {0, 3, 151, 300} \X {0}

\* numbers a scraped page may show: 0, 75, 100 and 150
ScrapeValues == {0, 150, 200, 300} \X {0}

\* total market cap and BTC percentage: 0 or 150, and 0, 50, 100 or 150 percent
GlobalValues == {0, 300} \X {0, 100, 200, 300}

\* bitcoin is listed once, on the first page
FirstPageValues == {0, 1, 2} \X {0, 3}

LaterPageValues == {0} \X {0, 3}

Unused == {Failed}

AttemptSets(key) ==
    CASE key \in {"btc_dom", "total_mc", "ethbtc_7d", "funding_avg"} ->
             Outcomes(ApiValues) \X Unused \X Unused
      [] key = "altcap" -> Outcomes(GlobalValues) \X Unused \X Unused
      [] key \in {"defi_7d", "netflow_m"} ->
             Outcomes(ApiValues) \X Outcomes(ScrapeValues) \X Unused
      [] key = "alt_btc_ratio" ->
             Outcomes(FirstPageValues) \X Outcomes(LaterPageValues)
                 \X Outcomes(LaterPageValues)
      [] OTHER ->
             Outcomes(ApiValues) \X Outcomes(ApiValues) \X Outcomes(ScrapeValues)

InitFetch ==
    /\ CycleIdle
    /\ \E k \in Keys : \E a \in AttemptSets(k) :
         ft = [NoFt EXCEPT !.key = k, !.att = a]
    /\ ev = NoEv /\ tr = NoTr /\ fv = NoFv

DoFetch ==
    /\ ~ft.done
    /\ ft' = [ft EXCEPT !.out = Fetch(ft.key, ft.att), !.done = TRUE]
    /\ UNCHANGED <<clock, file, pc, now_ts, vals, cache, store_log, result,
                   cycles, ev, tr, fv>>

NextFetch == DoFetch

SpecFetch == InitFetch /\ [][NextFetch]_vars

-----------------------------------------------------------------------------
(* _find_value_at on its own: every short history in append order *)

MaxFindLen == 3

MaxFindTime == 3

\* a key missing from vals, a key that is None, keys with values
FindVals == {[k \in {} |-> None],
             [k \in {"btc_dom", "season_idx"} |->
                 IF k = "btc_dom" THEN None ELSE Some(1)],
             [k \in {"btc_dom", "season_idx"} |->
                 IF k = "btc_dom" THEN Some(1) ELSE None],
             [k \in {"btc_dom", "season_idx"} |-> Some(2)]}

FindKeys == {"btc_dom", "season_idx"}

FindSnapshots == {Snapshot(t, v) : t \in 1..MaxFindTime, v \in FindVals}

InAppendOrder(h) == \A i \in 1..(Len(h) - 1) : h[i].t <= h[i + 1].t

FindHistories ==
    {h \in UNION {[1..n -> FindSnapshots] : n \in 0..MaxFindLen} :
        InAppendOrder(h)}

InitFind ==
    /\ CycleIdle
    /\ \E h \in FindHistories, k \in FindKeys, t \in 0..MaxFindTime :
         fv = [NoFv EXCEPT !.history = h, !.key = k, !.target = t]
    /\ ev = NoEv /\ tr = NoTr /\ ft = NoFt

DoFind ==
    /\ ~fv.done
    /\ fv' = [fv EXCEPT !.out = _find_value_at(fv.history, fv.key, fv.target),
                        !.done = TRUE]
    /\ UNCHANGED <<clock, file, pc, now_ts, vals, cache, store_log, result,
                   cycles, ev, tr, ft>>

NextFind == DoFind

SpecFind == InitFind /\ [][NextFind]_vars

-----------------------------------------------------------------------------
(* Properties *)

\* the history a load of the file yields
Stored(f) == IF f.k = "json" THEN f.doc.history ELSE <<>>

\* the file holds a JSON object whose "history" is a list of {t, vals} entries
WellFormed(f) == f.k = "json" /\ f.doc.k = "dict" /\ f.doc.hk = "list"

\* C1: build_report, given metrics (available or None) and a history, runs
\* to its return statement: a call that got past the fetches and the prune
\* ends with a report, never with an exception.
C1_BuildReportReturns ==
    result.at \in {"render", "return"} => result.outcome = "report"

Above(x, th) == x.some /\ x.v > th

\* C2: each signal is true exactly when its metric is available and strictly
\* above its threshold (3, 0, 0, 1.5, 75), an unavailable metric gives a
\* false signal, and active_count is the number of true signals, in 0..5.
C2_SignalsAreStrictThresholds ==
    ev.done =>
        LET v == ev.in
            o == ev.out
            sig == <<o.s_ethbtc, o.s_funding, o.s_netflow, o.s_ratio, o.s_index>>
        IN /\ o.s_ethbtc = Above(v["ethbtc_7d"], 6)
           /\ o.s_funding = Above(v["funding_avg"], 0)
           /\ o.s_netflow = Above(v["netflow_m"], 0)
           /\ o.s_ratio = Above(v["alt_btc_ratio"], 3)
           /\ o.s_index = Above(v["season_idx"], 150)
           /\ o.count_active = Cardinality({i \in 1..5 : sig[i]})
           /\ o.count_active \in 0..5

\* three signals are active, one sits exactly on its threshold and one metric
\* is unavailable
C2_Witness ==
    /\ ev.done
    /\ ev.out.count_active = 3
    /\ ~ev.in["netflow_m"].some
    /\ ev.in["season_idx"] = Some(150)

\* C3: the level follows active_count and the season-index signal in
\* priority order: >= 4 with the season-index signal gives Confirmed, >= 4
\* gives StrongSignal, 2 or 3 gives EarlySignal, anything else None; an
\* all-unavailable vector gives None and five true signals give Confirmed.
C3_LevelByPriority ==
    ev.done =>
        LET v == ev.in
            idx == Above(v["season_idx"], 150)
            n == Cardinality({k \in {"ethbtc_7d", "funding_avg", "netflow_m",
                                     "alt_btc_ratio", "season_idx"} :
                    Above(v[k], CASE k = "ethbtc_7d" -> 6
                                  [] k = "alt_btc_ratio" -> 3
                                  [] k = "season_idx" -> 150
                                  [] OTHER -> 0)})
        IN /\ ev.out.level =
                 (IF n >= 4 /\ idx THEN "Altseason Confirmed"
                  ELSE IF n >= 4 THEN "Strong Signal"
                  ELSE IF n \in {2, 3} THEN "Early Signal"
                  ELSE "None")
           /\ (\A k \in Keys : ~v[k].some) => ev.out.level = "None"
           /\ n = 5 => ev.out.level = "Altseason Confirmed"

\* four signals are active and the season index is not one of them
C3_Witness ==
    /\ ev.done
    /\ ev.out.level = "Strong Signal"
    /\ ev.out.count_active = 4
    /\ ~ev.out.s_index

\* the snapshots a lookup may answer from
Eligible(h, key, target) ==
    {i \in 1..Len(h) : /\ h[i].t <= target
                       /\ key \in DOMAIN h[i].vals
                       /\ h[i].vals[key].some}

\* C4: _find_value_at returns the metric's value in a snapshot with the
\* greatest timestamp <= target among those holding the metric (present and
\* not None), None when there is no such snapshot, and so never a value of a
\* snapshot later than the target.
C4_NearestAtOrBefore ==
    fv.done =>
        LET h == fv.history
            E == Eligible(h, fv.key, fv.target)
        IN IF E = {} THEN fv.out = None
           ELSE \E i \in E : /\ \A j \in E : h[j].t <= h[i].t
                             /\ fv.out = h[i].vals[fv.key]

\* the answer comes from the later of two eligible snapshots while a snapshot
\* after the target holds another value of the metric
C4_Witness ==
    /\ fv.done
    /\ fv.out.some
    /\ LET h == fv.history
           E == Eligible(h, fv.key, fv.target)
       IN /\ \E i \in E, j \in E : h[i].t < h[j].t
          /\ \E i \in 1..Len(h) : /\ h[i].t > fv.target
                                  /\ fv.key \in DOMAIN h[i].vals
                                  /\ h[i].vals[fv.key].some
                                  /\ h[i].vals[fv.key] # fv.out

\* C5: after a prune at time now no snapshot is older than now - 72h and
\* every loaded snapshot that is not older is still there, once; and the
\* store a cycle's save wrote holds no snapshot older than now - 72h.
C5_PruneKeepsRetentionWindow ==
    store_log.appended # <<>> =>
        LET old == store_log.loaded.history
            kept == store_log.pruned
            horizon == store_log.now - 72 * 3600
        IN /\ \A i \in 1..Len(kept) : kept[i].t >= horizon
           /\ \A i \in 1..Len(old) :
                 old[i].t >= horizon => \E j \in 1..Len(kept) : kept[j] = old[i]
           /\ Len(kept) = Cardinality({i \in 1..Len(old) : old[i].t >= horizon})
           /\ store_log.saved = "ok" =>
                 /\ file.k = "json"
                 /\ \A i \in 1..Len(Stored(file)) : Stored(file)[i].t >= horizon

\* a saved cycle whose prune dropped an expired snapshot and kept one taken
\* exactly at the horizon
C5_Witness ==
    /\ store_log.saved = "ok"
    /\ LET old == store_log.loaded.history
           horizon == store_log.now - 72 * 3600
       IN /\ \E i \in 1..Len(old) : old[i].t < horizon
          /\ \E i \in 1..Len(old) : old[i].t = horizon

\* C6: the stored history stays in non-decreasing timestamp order and a cycle
\* changes it only by dropping expired snapshots and appending one new
\* snapshot, not older than any stored one, at the end.
C6_CycleOnlyExpiresAndAppends ==
    [][Stored(file') # Stored(file) =>
          LET old == Stored(file)
              new == Stored(file')
          IN /\ new # <<>>
             /\ \A i \in 1..Len(old) : old[i].t <= new[Len(new)].t
             /\ \A i \in 1..(Len(new) - 1) : new[i].t <= new[i + 1].t
             /\ SubSeq(new, 1, Len(new) - 1) =
                    SelectSeq(old, LAMBDA h :
                                 h.t >= new[Len(new)].t - 72 * 3600)]_vars

\* C7: a save that fails leaves the persisted state as it was: a later load
\* still reads the complete history of before the save.
C7_FailedSaveKeepsPersistedState ==
    [][(store_log.saved = "none"
            /\ store_log'.saved \in {"open_failed", "write_failed"}) =>
          Stored(file') = Stored(file)]_vars

\* C8: whatever the store file holds, the cycle goes on as if the store were
\* empty: after the load and prune the history is the current snapshot alone.
C8_CorruptStoreReadsAsEmpty ==
    (store_log # NoLog /\ ~WellFormed(store_log.before)) =>
        /\ Len(store_log.appended) = 1
        /\ store_log.appended[1].t = store_log.now

\* C9: a fetcher returns a value or None and never raises, whatever its
\* source attempts answer; when none of them gives a valid payload it
\* returns None.
C9_FetchersNeverRaise ==
    ft.done =>
        /\ ~ft.out.raised
        /\ (\A i \in 1..3 : ft.att[i].k # "valid") => ft.out.value = None

\* C10: the point-difference trend follows the sign of the delta: <= -1.0 is
\* strong negative and (-1.0, 0) negative, both with the caller's negative
\* label; >= 1.0 and (0, 1.0) are positive with the caller's positive label;
\* 0 is sideways.
C10_TrendFollowsSign ==
    (tr.done /\ tr.delta.some) =>
        LET d == tr.delta.v
            o == tr.out
        IN /\ d <= -2 => (o.label = "neg_text" /\ o.strong)
           /\ (-2 < d /\ d < 0) => (o.label = "neg_text" /\ ~o.strong)
           /\ d > 0 => o.label = "pos_text"
           /\ d = 0 => o.kind = "sideways"

\* the domain of the season index, 0 to 100, in the fixed-point unit
InIndexDomain(x) == 0 <= x /\ x <= 2 * 100

\* attempt i of the season-index fetcher answers with a number of the domain
UsableIndex(att, i) == att[i].k = "valid" /\ InIndexDomain(att[i].v)

\* C11: the season index the fetcher hands to the metric vector is None or a
\* number in [0, 100], whichever of the three attempts produced it: an
\* attempt that answers outside the domain is passed over, so the value
\* comes from the first attempt that answers inside it.
C11_SeasonIndexInDomain ==
    (ft.done /\ ft.key = "season_idx") =>
        /\ ~ft.out.raised
        /\ ft.out.value.some => InIndexDomain(ft.out.value.v)
        /\ \A i \in 1..3 :
             (UsableIndex(ft.att, i)
                 /\ \A j \in 1..(i - 1) : ~UsableIndex(ft.att, j)) =>
             ft.out.value =
                 Some(IF i = 3 THEN ft.att[i].v ELSE RoundInt(ft.att[i].v))

InFlight == {t \in Tasks : pc[t] # "idle"}

\* C12: at most one cycle is in flight, whichever of /check and the daily
\* job started it, and no append is lost to an overwrite by another cycle:
\* a save that completes leaves in the store every snapshot that was
\* persisted there and has not expired, followed by the cycle's own.
C12_CyclesDoNotInterleave ==
    [][/\ Cardinality(InFlight') <= 1
       /\ \A p \in Tasks :
            (pc[p] = "save" /\ pc'[p] = "render"
                /\ store_log'.saved = "ok") =>
            Stored(file') =
                Append(Kept(Stored(file), now_ts[p]),
                       Snapshot(now_ts[p], vals[p]))]_vars

\* both handlers have run a cycle to its save, the daily job after /check,
\* and the store holds the snapshot of each
C12_Witness ==
    /\ pc["send_daily"] = "render"
    /\ store_log.saved = "ok"
    /\ result.by = "check" /\ result.at \in {"return", "render"}
    /\ \E i \in 1..Len(Stored(file)) : \E j \in 1..Len(Stored(file)) :
         /\ i < j
         /\ Stored(file)[i] = Snapshot(result.now, result.vals)
         /\ Stored(file)[j] = Snapshot(now_ts["send_daily"], vals["send_daily"])

\* value prev of key comes from a snapshot of history, the last one (the one
\* the cycle appended) left out, with a timestamp in [now - H, now - age]
FromOlderSnapshot(history, key, prev, now, age) ==
    \E i \in 1..(Len(history) - 1) :
        /\ keep_from(now) <= history[i].t
        /\ history[i].t <= now - age
        /\ key \in DOMAIN history[i].vals
        /\ history[i].vals[key] = prev

\* C13: in a cycle run at time now, the historical value behind a metric's
\* 4h (24h) delta is None or comes from a snapshot with timestamp in
\* [now - H, now - 4h] ([now - H, now - 24h]), never from the snapshot the
\* cycle itself appended; a delta has a value only when its historical
\* value has one, and a cycle that starts from an empty store has no 4h or
\* 24h delta at all.
C13_HistoricalValueIsOlder ==
    result.at \in {"return", "render"} =>
        /\ Len(result.history) >= 1
        /\ result.history[Len(result.history)] =
               Snapshot(result.now, result.vals)
        /\ \A k \in Keys :
             /\ result.prev4[k].some =>
                    FromOlderSnapshot(result.history, k, result.prev4[k],
                                      result.now, 4 * HOUR)
             /\ result.prev24[k].some =>
                    FromOlderSnapshot(result.history, k, result.prev24[k],
                                      result.now, 24 * HOUR)
             /\ result.d4[k].some => result.prev4[k].some
             /\ result.d24[k].some => result.prev24[k].some
        /\ (store_log.appended = result.history
               /\ store_log.loaded.history = <<>>) =>
               \A k \in Keys : ~result.d4[k].some /\ ~result.d24[k].some

\* a cycle whose 4h value of some metric comes from an older snapshot and
\* differs from the value the cycle fetched and appended
C13_Witness ==
    /\ result.at \in {"return", "render"}
    /\ Len(result.history) >= 2
    /\ \E k \in Keys :
         /\ result.vals[k].some
         /\ result.prev4[k].some
         /\ result.prev4[k] # result.vals[k]
         /\ result.d4[k].some

====
